---- MODULE Spec2Model ----
(***************************************************************************)
(* Model of the SDS011 dust-sensor library (src/SDS011/sds011.py).         *)
(*                                                                         *)
(* Two specifications share the module:                                    *)
(*   SpecCodec  applies the pure packet functions (checksum, get_ID_bytes, *)
(*              build_packet, extract_data_from_incoming_packet) to inputs *)
(*              drawn from bounded sets;                                   *)
(*   Spec       is the session: a caller running request() and the public  *)
(*              commands against the serial input buffer, with the sensor  *)
(*              as the environment that fills that buffer.                 *)
(*                                                                         *)
(* Sequences are 1-indexed here, Python's are 0-indexed: the byte at       *)
(* Python offset k of a packet is packet[k + 1] in the model.              *)
(***************************************************************************)
EXTENDS Integers, Sequences, FiniteSets, TLC

VARIABLES
    op,       \* SpecCodec: the last call of a pure function, with its result
    inbuf,    \* conn's input buffer: bytes received and not yet read
    tx,       \* bytes of the frame the sensor is sending, not yet received
    wire,     \* ids of the requests written to the sensor and not yet answered
    written,  \* the last frame passed to conn.write
    nreq,     \* number of request() calls started so far
    pc,       \* per caller: position in request()
    cur,      \* per caller: the command being run and the packet it built
    rid,      \* per caller: number of the request() call it is in
    waited,   \* per caller: time.sleep(0.05) calls made by this request()
    resp,     \* per caller: the bytes conn.read(10) returned
    result    \* per caller: what the command returned

codecVars == <<op>>
sessionVars == <<inbuf, tx, wire, written, nreq, pc, cur, rid, waited, resp, result>>
vars == <<op, inbuf, tx, wire, written, nreq, pc, cur, rid, waited, resp, result>>

----------------------------------------------------------------------------
(* Python values *)

\* Optional ID argument: None, or an int.
None == [none |-> TRUE, v |-> 0]
IntID(n) == [none |-> FALSE, v |-> n]

\* Truth value of `if ID:` -- None and 0 are both falsy.
Truthy(ID) == ~ID.none /\ ID.v # 0

\* Typed operands of a comparison: packet[i] of a bytes object is an int,
\* a literal b"\xAA" is a bytes object.
PyInt(n) == [type |-> "int", v |-> n]
PyBytes(s) == [type |-> "bytes", v |-> s]

\* Python's != : values of different types are never equal.
PyNe(a, b) == a.type # b.type \/ a.v # b.v

Min(a, b) == IF a < b THEN a ELSE b
Max(a, b) == IF a > b THEN a ELSE b

\* s[lo:hi] for 0 <= lo, with hi counted from the end when negative.
PySlice(s, lo, hi) ==
    LET h == IF hi < 0 THEN Max(Len(s) + hi, 0) ELSE Min(hi, Len(s))
    IN  SubSeq(s, lo + 1, h)

\* [v] * n : the empty list when n <= 0.
Repeat(v, n) == [i \in 1..Max(n, 0) |-> v]

\* Result of a call that may raise.
Ok(v) == [ok |-> TRUE, err |-> "", v |-> v]
Raise(e) == [ok |-> FALSE, err |-> e, v |-> <<>>]

----------------------------------------------------------------------------
(* Class constants *)

outgoing_cmd == 180   \* 0xB4
HEAD == 170           \* b"\xAA"
TAIL == 171           \* b"\xAB"
ShortFrameLen == 10 - 1
FrameLen == 10        \* bytes request() waits for and reads

----------------------------------------------------------------------------
(* checksum *)

RECURSIVE checksumLoop(_, _)
checksumLoop(acc, togenerate) ==
    IF togenerate = <<>> THEN acc
    ELSE checksumLoop((acc + Head(togenerate)) % 256, Tail(togenerate))

RECURSIVE checksum_unmasked(_)
checksum_unmasked(togenerate) ==
    IF togenerate = <<>> THEN 0
    ELSE Head(togenerate) + checksum_unmasked(Tail(togenerate))

\* checksum = 0; for i in togenerate: checksum += i; checksum &= 0xFF
checksum(togenerate) == checksumLoop(0, togenerate)

checksum_incoming_wide(packet) == checksum(PySlice(packet, 3, 8))
checksum_incoming(packet) == checksum(PySlice(packet, 2, 8))

checksum_outgoing_with_cmd(packet) == checksum(PySlice(packet, 1, 17))
checksum_outgoing(packet) == checksum(PySlice(packet, 2, 17))

----------------------------------------------------------------------------
(* get_ID_bytes *)

\* ID & 0xFF is ID % 256; (ID & 0xFF00) >> 8 is (ID \div 256) % 256.
get_ID_bytes(ID) ==
    IF Truthy(ID) THEN <<ID.v % 256, (ID.v \div 256) % 256>>
    ELSE <<255, 255>>

----------------------------------------------------------------------------
(* struct.pack / struct.unpack *)

\* pack("B" * n, *values): one byte per value; struct.error when the number
\* of values is not n or a value is not in 0..255.
PackBytesTruncating(n, values) ==
    IF Len(values) < n \/ \E i \in 1..Len(values) : values[i] \notin 0..255
    THEN Raise("struct.error")
    ELSE Ok(SubSeq(values, 1, n))
PackBytes(n, values) ==
    IF Len(values) # n \/ \E i \in 1..Len(values) : values[i] \notin 0..255
    THEN Raise("struct.error")
    ELSE Ok(values)

\* An unpack scheme "<..." is the sequence of its field widths in bytes:
\* "<BHHHB" is <<1, 2, 2, 2, 1>>.
DefaultScheme == <<1, 2, 2, 2, 1>>
ByteScheme17 == [i \in 1..17 |-> 1]

RECURSIVE SchemeSize(_)
SchemeSize(scheme) ==
    IF scheme = <<>> THEN 0 ELSE Head(scheme) + SchemeSize(Tail(scheme))

\* Value of a field of the scheme: "<" is little-endian.
RECURSIVE FieldBE(_)
FieldBE(bytes) ==
    IF bytes = <<>> THEN 0
    ELSE Head(bytes) * (256 ^ (Len(bytes) - 1)) + FieldBE(Tail(bytes))
RECURSIVE FieldLE(_)
FieldLE(bytes) ==
    IF bytes = <<>> THEN 0 ELSE Head(bytes) + 256 * FieldLE(Tail(bytes))

RECURSIVE UnpackFields(_, _)
UnpackFields(scheme, bytes) ==
    IF scheme = <<>> THEN <<>>
    ELSE <<FieldLE(SubSeq(bytes, 1, Head(scheme)))>>
         \o UnpackFields(Tail(scheme), SubSeq(bytes, Head(scheme) + 1, Len(bytes)))

\* unpack(scheme, bytes): struct.error unless the sizes agree.
UnpackAnySize(scheme, bytes) == Ok(UnpackFields(scheme, bytes))
Unpack(scheme, bytes) ==
    IF Len(bytes) # SchemeSize(scheme) THEN Raise("struct.error")
    ELSE Ok(UnpackFields(scheme, bytes))

----------------------------------------------------------------------------
(* extract_data_from_incoming_packet *)

extract_data_from_incoming_packet(packet, unpack_scheme) ==
    IF  /\ ~PyNe(PyInt(packet[1]), PyBytes(<<HEAD>>))
        /\ ~PyNe(PyInt(packet[Len(packet)]), PyBytes(<<TAIL>>))
    THEN Raise("No matching tags")
    ELSE
        LET u == Unpack(unpack_scheme, PySlice(packet, 1, -1)) IN
        IF ~u.ok THEN Raise("Bytestream mismatch")
        ELSE
            LET tmp == u.v
                toreturn == [cmd |-> tmp[1],
                             data |-> SubSeq(tmp, 2, Len(tmp) - 1),
                             checksum |-> tmp[Len(tmp)]]
            IN  IF toreturn.checksum # checksum_incoming(packet)
                THEN Raise("Checksum missmatch")
                ELSE Ok(toreturn)

----------------------------------------------------------------------------
(* build_packet, build_packet_basic *)

build_packet(packetdict) ==
    LET body == PackBytes(16, <<packetdict.cmd>> \o packetdict.data) IN
    IF ~body.ok THEN body
    ELSE LET packet == <<HEAD>> \o body.v
         IN  Ok(packet \o <<checksum_outgoing(packet)>> \o <<TAIL>>)

build_packet_basic(data, ID) ==
    build_packet([cmd |-> outgoing_cmd,
                  data |-> data \o Repeat(0, 13 - Len(data)) \o get_ID_bytes(ID)])

----------------------------------------------------------------------------
(* SpecCodec: the pure functions applied to bounded inputs.  Each behaviour *)
(* is one call from the initial state, followed for a decoded frame by a   *)
(* second decode of the frame with one byte changed, and for a built       *)
(* packet by a decode of that packet.                                      *)

\* Incoming frames: head, command, six data bytes, checksum byte, tail, with
\* right and wrong tags and right and wrong checksum bytes.
HeadVals == {HEAD, TAIL}
TailVals == {TAIL, HEAD}
CmdVals == {192}
DataVals == {0, 1, 255}
FlipVals == {0, 1, 170, 255}

\* The datasheet's example reply: AA C0 D4 04 3A 0A A1 60 1D AB.
DatasheetFrame == <<170, 192, 212, 4, 58, 10, 161, 96, 29, 171>>

InFrames ==
    {DatasheetFrame} \cup
    { <<h, c>> \o d \o <<(checksum(d) + k) % 256, t>> :
        h \in HeadVals, c \in CmdVals, d \in [1..6 -> DataVals],
        k \in {0, 1}, t \in TailVals }

\* Payloads of the public commands, and short arbitrary ones.
PayloadVals == {0, 2, 255}
MaxPayloadLen == 2
CommandPayloads ==
    { <<2, 1, 1>>, <<2, 1, 0>>, <<4>>, <<6, 1, 0>>, <<6, 1, 1>>,
      <<4, 0, 0, 0, 0, 0, 2>> }
\* Payloads around the 13 bytes build_packet_basic has room for.
LongPayloads == { Repeat(b, n) : b \in {0, 7}, n \in 12..16 }
Payloads ==
    CommandPayloads \cup LongPayloads \cup
    UNION { [1..n -> PayloadVals] : n \in 0..MaxPayloadLen }

\* Byte strings given to checksum.
ChecksumVals == {0, 1, 128, 255}
MaxChecksumLen == 4
ChecksumInputs == UNION { [1..n -> ChecksumVals] : n \in 0..MaxChecksumLen }

IDs == {None, IntID(0), IntID(1), IntID(257), IntID(4660), IntID(65535)}
Schemes == {DefaultScheme, ByteScheme17}

InitCodec ==
    /\ op = [name |-> "none"]
    /\ inbuf = <<>> /\ tx = <<>> /\ wire = <<>> /\ written = <<>> /\ nreq = 0
    /\ pc = <<>> /\ cur = <<>> /\ rid = <<>> /\ waited = <<>>
    /\ resp = <<>> /\ result = <<>>

DecodeCall ==
    /\ UNCHANGED sessionVars
    /\ op.name = "none"
    /\ \E packet \in InFrames :
        op' = [name |-> "decode", packet |-> packet,
               res |-> extract_data_from_incoming_packet(packet, DefaultScheme)]

\* Decode a frame again after one of its bytes was changed in transit.
CorruptCall ==
    /\ UNCHANGED sessionVars
    /\ op.name = "decode"
    /\ \E i \in 1..Len(op.packet) : \E b \in FlipVals \ {op.packet[i]} :
        LET packet == [op.packet EXCEPT ![i] = b] IN
        op' = [name |-> "corrupt", packet |-> packet, pos |-> i,
               prev |-> op.res,
               res |-> extract_data_from_incoming_packet(packet, DefaultScheme)]

BuildCall ==
    /\ UNCHANGED sessionVars
    /\ op.name = "none"
    /\ \E data \in Payloads, ID \in IDs :
        op' = [name |-> "build", data |-> data, ID |-> ID,
               res |-> build_packet_basic(data, ID)]

\* set_new_device_ID's packet: the new ID's bytes end the payload.
BuildNewIDCall ==
    /\ UNCHANGED sessionVars
    /\ op.name = "none"
    /\ \E newID \in IDs \ {None} :
        LET data == <<5>> \o Repeat(0, 10) \o get_ID_bytes(newID) IN
        op' = [name |-> "build", data |-> data, ID |-> None,
               res |-> build_packet_basic(data, None)]

RoundTripCall ==
    /\ UNCHANGED sessionVars
    /\ op.name = "build"
    /\ op.res.ok
    /\ \E scheme \in Schemes :
        op' = [name |-> "roundtrip", data |-> op.data, ID |-> op.ID,
               packet |-> op.res.v, scheme |-> scheme,
               res |-> extract_data_from_incoming_packet(op.res.v, scheme)]

GetIDCall ==
    /\ UNCHANGED sessionVars
    /\ op.name = "none"
    /\ \E ID \in IDs :
        op' = [name |-> "get_ID_bytes", ID |-> ID, res |-> get_ID_bytes(ID)]

\* checksum of a byte string, and of the same bytes in another order.
ChecksumCall ==
    /\ UNCHANGED sessionVars
    /\ op.name = "none"
    /\ \E bytes \in ChecksumInputs :
        LET n == Len(bytes)
            swapped == [i \in 1..n |-> IF n >= 2 /\ i <= 2 THEN bytes[3 - i] ELSE bytes[i]]
            rotated == [i \in 1..n |-> bytes[(i % n) + 1]]
        IN  op' = [name |-> "checksum", bytes |-> bytes, res |-> checksum(bytes),
                   swapped |-> checksum(swapped), rotated |-> checksum(rotated)]

----------------------------------------------------------------------------
(* The public commands *)

\* x / 10.0 as an exact fraction; FloatEq compares two fractions by value.
FloorDiv10(x) == [num |-> x \div 10, den |-> 1]
TrueDiv10(x) == [num |-> x, den |-> 10]
FloatEq(a, b) == a.num * b.den = b.num * a.den

\* data = [-1, -1, -1], kept when decoding raises PacketParseException.
SentinelData == <<-1, -1, -1>>

\* What a command returns.
Returned(kind, v) == [kind |-> kind, v |-> v]
NoResult == Returned("none", <<>>)

\* query_data after request(): decode, fall back to the sentinel data on a
\* PacketParseException, scale the first two fields.
query_data_result_uncaught(response) ==
    LET r == extract_data_from_incoming_packet(response, DefaultScheme)
    IN  IF ~r.ok THEN Returned("raise", <<r.err>>)
        ELSE Returned("tuple", <<TrueDiv10(r.v.data[1]), TrueDiv10(r.v.data[2]),
                                 r.v.data[3]>>)
query_data_result(response) ==
    LET r == extract_data_from_incoming_packet(response, DefaultScheme)
        data == IF r.ok THEN r.v.data ELSE SentinelData
    IN  Returned("tuple", <<TrueDiv10(data[1]), TrueDiv10(data[2]), data[3]>>)

CommandNames ==
    {"set_report_query_mode", "set_report_active_mode", "set_new_device_ID",
     "set_sleep_mode", "set_work_mode", "query_data"}

\* The packet each command builds before it calls request().
CommandPacket(name, ID, newID) ==
    CASE name = "set_report_query_mode" -> build_packet_basic(<<2>> \o <<1, 1>>, ID)
      [] name = "set_report_active_mode" -> build_packet_basic(<<2>> \o <<1, 0>>, ID)
      [] name = "set_new_device_ID" ->
            build_packet_basic(<<5>> \o Repeat(0, 10) \o get_ID_bytes(newID), None)
      [] name = "set_sleep_mode" -> build_packet_basic(<<6>> \o <<1, 0>>, ID)
      [] name = "set_work_mode" -> build_packet_basic(<<6>> \o <<1, 1>>, ID)
      [] name = "query_data" -> build_packet_basic(<<4>>, ID)

\* What each command returns once request() has returned `response`:
\* set_sleep_mode and set_work_mode have no return statement.
CommandResult(name, response) ==
    CASE name \in {"set_report_query_mode", "set_report_active_mode",
                   "set_new_device_ID"} -> Returned("True", <<>>)
      [] name \in {"set_sleep_mode", "set_work_mode"} -> Returned("None", <<>>)
      [] name = "query_data" -> query_data_result(response)

\* The packet a command hands to request(), for every command and address.
CommandCall ==
    /\ UNCHANGED sessionVars
    /\ op.name = "none"
    /\ \E name \in CommandNames, ID \in IDs, newID \in IDs \ {None} :
        op' = [name |-> "command", cmd |-> name, ID |-> ID,
               newID |-> IF name = "set_new_device_ID" THEN newID ELSE None,
               res |-> CommandPacket(name, ID, newID)]

NextCodec ==
    \/ DecodeCall
    \/ CorruptCall
    \/ BuildCall
    \/ BuildNewIDCall
    \/ RoundTripCall
    \/ GetIDCall
    \/ ChecksumCall
    \/ CommandCall

SpecCodec == InitCodec /\ [][NextCodec]_vars

----------------------------------------------------------------------------
(* Spec: the session.  A caller runs a command; the sensor is the          *)
(* environment of conn: it may answer a written request with a frame, send *)
(* unsolicited frames (active reporting), or stay silent.                  *)

MaxRequests == 2   \* request() calls in a behaviour
MaxBuf == 10       \* bytes the input buffer holds
MaxWait == 1       \* sleeps that count as the maximum wait

Callers == {"main"}
SessionIDs == {None}
NewIDs == {IntID(257)}

\* Frames the sensor sends: the datasheet's, one with a wrong checksum byte,
\* one with a valid checksum and swapped tags.
BadChecksumFrame == <<170, 192, 255, 1, 2, 0, 3, 0, 6, 171>>
BadTagsFrame == <<171, 192, 1, 0, 2, 0, 3, 0, 6, 170>>
ReplyFrames == {DatasheetFrame, BadChecksumFrame, BadTagsFrame}
ReportFrames == {<<170, 192, 10, 0, 20, 0, 161, 96, 31, 171>>}

\* A byte on the line: its value, the request it answers (0: unsolicited),
\* its offset in its frame, and (once received) the number of requests
\* started when it reached the input buffer.
LineBytes(frame, rq) ==
    [i \in 1..Len(frame) |-> [v |-> frame[i], rq |-> rq, off |-> i - 1, ep |-> 0]]
Values(bytes) == [i \in 1..Len(bytes) |-> bytes[i].v]

NoCall == [name |-> "none", ID |-> None, newID |-> None, packet |-> <<>>,
           stale |-> FALSE, overlap |-> FALSE]

Init ==
    /\ op = [name |-> "none"]
    /\ inbuf = <<>> /\ tx = <<>> /\ wire = <<>> /\ written = <<>> /\ nreq = 0
    /\ pc = [c \in Callers |-> "idle"]
    /\ cur = [c \in Callers |-> NoCall]
    /\ rid = [c \in Callers |-> 0]
    /\ waited = [c \in Callers |-> 0]
    /\ resp = [c \in Callers |-> <<>>]
    /\ result = [c \in Callers |-> NoResult]

\* conn.reset_input_buffer()
KeepInputBuffer(buf) == buf
reset_input_buffer(buf) == <<>>

\* A command is called: it builds its packet and enters request(), whose
\* first statement discards the input buffer.  `overlap` records that some
\* request has started while another caller's request was running.
Begin(c) ==
    /\ pc[c] \in {"idle", "done"}
    /\ nreq < MaxRequests
    /\ \E name \in CommandNames, ID \in SessionIDs, newID \in NewIDs :
        LET built == CommandPacket(name, ID, newID) IN
        /\ built.ok
        /\ cur' = [cur EXCEPT ![c] =
                     [name |-> name, ID |-> ID,
                      newID |-> IF name = "set_new_device_ID" THEN newID ELSE None,
                      packet |-> built.v, stale |-> Len(inbuf) > 0,
                      overlap |-> \/ \E d \in DOMAIN pc : cur[d].overlap
                                  \/ \E d \in DOMAIN pc \ {c} :
                                        pc[d] \in {"write", "poll"}]]
    /\ nreq' = nreq + 1
    /\ rid' = [rid EXCEPT ![c] = nreq + 1]
    /\ inbuf' = reset_input_buffer(inbuf)
    /\ waited' = [waited EXCEPT ![c] = 0]
    /\ resp' = [resp EXCEPT ![c] = <<>>]
    /\ result' = [result EXCEPT ![c] = NoResult]
    /\ pc' = [pc EXCEPT ![c] = "write"]
    /\ UNCHANGED <<op, tx, wire, written>>

\* conn.write(bytestring)
Write(c) ==
    /\ pc[c] = "write"
    /\ written' = cur[c].packet
    /\ wire' = Append(wire, rid[c])
    /\ pc' = [pc EXCEPT ![c] = "poll"]
    /\ UNCHANGED <<op, inbuf, tx, nreq, cur, rid, waited, resp, result>>

\* while conn.in_waiting < 10: time.sleep(0.05)
Sleep(c) ==
    /\ pc[c] = "poll"
    /\ Len(inbuf) < FrameLen
    /\ waited' = [waited EXCEPT ![c] = Min(waited[c] + 1, MaxWait + 1)]
    /\ UNCHANGED <<op, inbuf, tx, wire, written, nreq, pc, cur, rid, resp, result>>

\* return conn.read(10), and the rest of the command that called request().
ReadAvailable(c) ==
    /\ pc[c] = "poll"
    /\ Len(inbuf) >= 1
    /\ resp' = [resp EXCEPT ![c] = SubSeq(inbuf, 1, Min(FrameLen, Len(inbuf)))]
    /\ inbuf' = SubSeq(inbuf, Min(FrameLen, Len(inbuf)) + 1, Len(inbuf))
    /\ result' = [result EXCEPT ![c] =
                    CommandResult(cur[c].name,
                                  Values(SubSeq(inbuf, 1, Min(FrameLen, Len(inbuf)))))]
    /\ pc' = [pc EXCEPT ![c] = "done"]
    /\ UNCHANGED <<op, tx, wire, written, nreq, cur, rid, waited>>
Read(c) ==
    /\ pc[c] = "poll"
    /\ Len(inbuf) >= FrameLen
    /\ resp' = [resp EXCEPT ![c] = SubSeq(inbuf, 1, FrameLen)]
    /\ inbuf' = SubSeq(inbuf, FrameLen + 1, Len(inbuf))
    /\ result' = [result EXCEPT ![c] =
                    CommandResult(cur[c].name, Values(SubSeq(inbuf, 1, FrameLen)))]
    /\ pc' = [pc EXCEPT ![c] = "done"]
    /\ UNCHANGED <<op, tx, wire, written, nreq, cur, rid, waited>>

\* The sensor answers the oldest written request with a frame.
SensorAnswer ==
    /\ tx = <<>>
    /\ wire # <<>>
    /\ \E frame \in ReplyFrames : tx' = LineBytes(frame, Head(wire))
    /\ wire' = Tail(wire)
    /\ UNCHANGED <<op, inbuf, written, nreq, pc, cur, rid, waited, resp, result>>

\* The sensor, in active reporting mode, sends a reading nobody asked for.
SensorReport ==
    /\ tx = <<>>
    /\ \E frame \in ReportFrames : tx' = LineBytes(frame, 0)
    /\ UNCHANGED <<op, inbuf, wire, written, nreq, pc, cur, rid, waited, resp, result>>

\* The next byte on the line reaches conn's input buffer.
Receive ==
    /\ tx # <<>>
    /\ Len(inbuf) < MaxBuf
    /\ inbuf' = Append(inbuf, [Head(tx) EXCEPT !.ep = nreq])
    /\ tx' = Tail(tx)
    /\ UNCHANGED <<op, wire, written, nreq, pc, cur, rid, waited, resp, result>>

Next ==
    \/ \E c \in DOMAIN pc : Begin(c)
    \/ \E c \in DOMAIN pc : Write(c)
    \/ \E c \in DOMAIN pc : Sleep(c)
    \/ \E c \in DOMAIN pc : Read(c)
    \/ SensorAnswer
    \/ SensorReport
    \/ Receive

Spec == Init /\ [][Next]_vars

----------------------------------------------------------------------------
(* SpecQuery: the session with one caller and a sensor in query mode: it   *)
(* answers every written request with one frame and sends nothing else.    *)
(* The caller's thread keeps running and the line keeps delivering.        *)

NextQuery ==
    \/ \E c \in DOMAIN pc : Begin(c)
    \/ \E c \in DOMAIN pc : Write(c)
    \/ \E c \in DOMAIN pc : Sleep(c)
    \/ \E c \in DOMAIN pc : Read(c)
    \/ SensorAnswer
    \/ Receive

FairQuery ==
    /\ \A c \in Callers : WF_vars(Write(c)) /\ WF_vars(Read(c))
    /\ WF_vars(SensorAnswer)
    /\ WF_vars(Receive)

SpecQuery == Init /\ [][NextQuery]_vars /\ FairQuery

----------------------------------------------------------------------------
(* SpecConc: two threads call commands on the same Sds011 object with no   *)
(* lock around request(); the sensor is in query mode.                     *)

Threads == {"t1", "t2"}

InitConc ==
    /\ op = [name |-> "none"]
    /\ inbuf = <<>> /\ tx = <<>> /\ wire = <<>> /\ written = <<>> /\ nreq = 0
    /\ pc = [c \in Threads |-> "idle"]
    /\ cur = [c \in Threads |-> NoCall]
    /\ rid = [c \in Threads |-> 0]
    /\ waited = [c \in Threads |-> 0]
    /\ resp = [c \in Threads |-> <<>>]
    /\ result = [c \in Threads |-> NoResult]

\* The threads call a command that uses the response and one that ignores it.
ThreadCommands == {"query_data", "set_work_mode"}
BeginThread(c) == Begin(c) /\ cur'[c].name \in ThreadCommands

\* The sensor answers with the datasheet's frame.
SensorAnswerValid == SensorAnswer /\ Values(tx') = DatasheetFrame

NextConc ==
    \/ \E c \in DOMAIN pc : BeginThread(c)
    \/ \E c \in DOMAIN pc : Write(c)
    \/ \E c \in DOMAIN pc : Sleep(c)
    \/ \E c \in DOMAIN pc : Read(c)
    \/ SensorAnswerValid
    \/ Receive

SpecConc == InitConc /\ [][NextConc]_vars

----------------------------------------------------------------------------
(* Properties of the packet functions, checked under SpecCodec *)

\* Plain sum of packet[lo..hi] (1-indexed), before any reduction mod 256.
RECURSIVE SumRange(_, _, _)
SumRange(s, lo, hi) == IF lo > hi THEN 0 ELSE s[lo] + SumRange(s, lo + 1, hi)

Decoded == op.name \in {"decode", "corrupt"}

\* C3 (as claimed): a frame whose first byte is not 0xAA or whose last byte
\* is not 0xAB fails to decode with "No matching tags", whatever its checksum.
C3_BadTagsRejected ==
    (Decoded /\ (op.packet[1] # 170 \/ op.packet[Len(op.packet)] # 171))
        => (~op.res.ok /\ op.res.err = "No matching tags")

\* C4 (amended): after a frame decoded successfully, changing any single byte
\* at offsets 2..7 (the six data bytes the checksum covers) to a different
\* value makes decode fail with "Checksum missmatch".
C4_DataByteChangeDetected ==
    (op.name = "corrupt" /\ op.prev.ok /\ op.pos \in 3..8)
        => (~op.res.ok /\ op.res.err = "Checksum missmatch")

C4_Witness ==
    /\ op.name = "corrupt" /\ op.prev.ok /\ op.pos \in 3..8
    /\ op.res.err = "Checksum missmatch"

\* C4 (as claimed): the same for any single byte between head and checksum
\* byte, the command byte at offset 1 included.
C4_CommandAndDataChangeDetected ==
    (op.name = "corrupt" /\ op.prev.ok /\ op.pos \in 2..8)
        => (~op.res.ok /\ op.res.err = "Checksum missmatch")

\* C5 (amended): decoding AA C0 D4 04 3A 0A A1 60 1D AB succeeds with command
\* 0xC0, data fields (0x04D4, 0x0A3A, 0x60A1) and checksum 0x1D, which is the
\* sum mod 256 of the bytes at offsets 2..7.
C5_DatasheetFrameDecodes ==
    (op.name = "decode" /\ op.packet = <<170, 192, 212, 4, 58, 10, 161, 96, 29, 171>>)
        => /\ op.res.ok
           /\ op.res.v.cmd = 192
           /\ op.res.v.data = <<1236, 2618, 24737>>
           /\ op.res.v.checksum = 29
           /\ op.res.v.checksum = SumRange(op.packet, 3, 8) % 256

C5_Witness ==
    /\ op.name = "decode"
    /\ op.packet = <<170, 192, 212, 4, 58, 10, 161, 96, 29, 171>>
    /\ op.res.ok

\* C5 (as claimed): the same frame decodes to data fields (0x04D4, 0x0A3A,
\* 0xA1) and checksum 0x60.
C5_DatasheetFrameAsClaimed ==
    (op.name = "decode" /\ op.packet = <<170, 192, 212, 4, 58, 10, 161, 96, 29, 171>>)
        => /\ op.res.ok
           /\ op.res.v.cmd = 192
           /\ op.res.v.data = <<1236, 2618, 161>>
           /\ op.res.v.checksum = 96

\* C8 (amended): in every built frame the checksum byte at offset 17 is the
\* sum mod 256 of the bytes at offsets 2..16, the 15 data bytes; the command
\* byte at offset 1 is not part of it.
C8_ChecksumOverData ==
    (op.name = "build" /\ op.res.ok)
        => /\ Len(op.res.v) = 19
           /\ op.res.v[18] = SumRange(op.res.v, 3, 17) % 256

C8_Witness ==
    /\ op.name = "build" /\ op.res.ok
    /\ op.res.v[18] = SumRange(op.res.v, 3, 17) % 256
    /\ op.res.v[18] # SumRange(op.res.v, 2, 17) % 256

\* C8 (as claimed): the checksum byte at offset 17 is the sum mod 256 of the
\* bytes at offsets 1..16, command byte included.
C8_ChecksumOverCommandAndData ==
    (op.name = "build" /\ op.res.ok)
        => op.res.v[18] = SumRange(op.res.v, 2, 17) % 256

\* C9 (amended): decoding a built frame with the default layout fails with
\* "Bytestream mismatch"; with a layout of 17 single bytes it succeeds exactly
\* when the bytes at offsets 8..16 sum to 0 mod 256, and then recovers the
\* command byte and the two address bytes of the frame.
C9_RoundTripOnlyWhenWindowsAgree ==
    (op.name = "roundtrip")
        => /\ (op.scheme = <<1, 2, 2, 2, 1>>)
                => (~op.res.ok /\ op.res.err = "Bytestream mismatch")
           /\ (op.scheme # <<1, 2, 2, 2, 1>>)
                => /\ op.res.ok <=> (SumRange(op.packet, 9, 17) % 256 = 0)
                   /\ ~op.res.ok => op.res.err = "Checksum missmatch"
                   /\ op.res.ok =>
                        /\ op.res.v.cmd = 180
                        /\ op.res.v.data[14] = op.packet[16]
                        /\ op.res.v.data[15] = op.packet[17]

C9_Witness ==
    /\ op.name = "roundtrip"
    /\ op.scheme = <<1, 2, 2, 2, 1>>
    /\ op.res.err = "Bytestream mismatch"

C9_WitnessByteLayout ==
    /\ op.name = "roundtrip"
    /\ op.scheme # <<1, 2, 2, 2, 1>>
    /\ op.res.ok

\* C9 (as claimed): decoding a built frame succeeds and recovers the command
\* byte.
C9_RoundTrip ==
    (op.name = "roundtrip") => (op.res.ok /\ op.res.v.cmd = 180)

\* C10 (as claimed): get_ID_bytes gives (0xFF, 0xFF) for an absent address and
\* (address & 0xFF, (address >> 8) & 0xFF) for every present one, 0 included.
C10_AddressSplit ==
    (op.name = "get_ID_bytes")
        => op.res = IF op.ID.none THEN <<255, 255>>
                    ELSE <<op.ID.v % 256, (op.ID.v \div 256) % 256>>

\* The two address bytes an address stands for: low byte, high byte;
\* (0xFF, 0xFF) when no address is given.
AddressOf(ID) ==
    IF ID.none THEN <<255, 255>> ELSE <<ID.v % 256, (ID.v \div 256) % 256>>

\* The address a command directs its frame to: set_new_device_ID broadcasts.
Addressee == IF op.cmd = "set_new_device_ID" THEN None ELSE op.ID

\* C11 (as claimed): the frame of every command, for every address argument, is
\* 19 bytes: head 0xAA, one command byte, 15 data bytes whose last two are the
\* address bytes, one checksum byte, tail 0xAB.
C11_FrameLayout ==
    (op.name = "command")
        => /\ op.res.ok
           /\ Len(op.res.v) = 19
           /\ op.res.v[1] = HEAD
           /\ op.res.v[2] = outgoing_cmd
           /\ SubSeq(op.res.v, 16, 17) = AddressOf(Addressee)
           /\ op.res.v[18] \in 0..255
           /\ op.res.v[19] = TAIL

\* C12: build_packet_basic with more than 13 payload bytes raises the
\* packing error and gives no frame.
C12_LongPayloadRejected ==
    (op.name = "build" /\ Len(op.data) > 13)
        => /\ ~op.res.ok
           /\ op.res.err = "struct.error"
           /\ op.res.v = <<>>

\* A 14-byte payload was refused.
C12_Witness ==
    /\ op.name = "build"
    /\ Len(op.data) = 14
    /\ ~op.res.ok

\* C14 (as claimed): set_report_query_mode / set_report_active_mode build, for
\* any address, the data 2, 1, mode (1 query, 0 active), ten zeros, address low
\* byte, address high byte, followed by the checksum of those 15 bytes.
C14_ReportModeFrame ==
    (op.name = "command" /\ op.cmd \in {"set_report_query_mode", "set_report_active_mode"})
        => LET mode == IF op.cmd = "set_report_query_mode" THEN 1 ELSE 0
               data == <<2, 1, mode>> \o Repeat(0, 10) \o AddressOf(op.ID)
           IN  /\ op.res.ok
               /\ Len(op.res.v) = 19
               /\ SubSeq(op.res.v, 3, 17) = data
               /\ op.res.v[18] = SumRange(data, 1, 15) % 256

\* C15 (as claimed): set_new_device_ID(newID, ID) carries, for every newID
\* (0 included) and every ID, the data 5, ten zeros, newID low byte, newID high
\* byte, and the address bytes 0xFF, 0xFF.
C15_NewDeviceIDFrame ==
    (op.name = "command" /\ op.cmd = "set_new_device_ID")
        => /\ op.res.ok
           /\ Len(op.res.v) = 19
           /\ SubSeq(op.res.v, 3, 17) =
                  <<5>> \o Repeat(0, 10)
                        \o <<op.newID.v % 256, (op.newID.v \div 256) % 256>>
                        \o <<255, 255>>

\* C17: checksum gives the sum of the bytes modulo 256, a value in 0..255,
\* 0 for the empty string, and the same value for the bytes in any order.
C17_ChecksumIsSumMod256 ==
    (op.name = "checksum")
        => /\ op.res = SumRange(op.bytes, 1, Len(op.bytes)) % 256
           /\ op.res \in 0..255
           /\ (op.bytes = <<>> => op.res = 0)
           /\ op.swapped = op.res
           /\ op.rotated = op.res

\* A checksum whose plain sum passes 255: 255 + 128 + 1 + 0 gives 128.
C17_Witness ==
    /\ op.name = "checksum"
    /\ op.bytes = <<255, 128, 1, 0>>
    /\ op.res = 128

----------------------------------------------------------------------------
(* Properties of the session, checked under Spec *)

\* The checksum byte at offset 8 is the sum mod 256 of the bytes at 2..7.
ChecksumMatches(values) == SumRange(values, 3, 8) % 256 = values[9]

QueryDone(c) == pc[c] = "done" /\ cur[c].name = "query_data"

\* C1 (as claimed): no request() is still waiting for its 10 bytes once the
\* maximum wait is over; by then it has ended (with a timeout error).
C1_RequestBounded ==
    \A c \in DOMAIN pc : pc[c] = "poll" => waited[c] <= MaxWait

\* C2: the input buffer is discarded before the frame is written, and none of
\* the 10 bytes request() returns was in the buffer when the request started.
C2_NoStaleByteReturned ==
    \A c \in DOMAIN pc :
        /\ pc[c] = "write" => \A i \in DOMAIN inbuf : inbuf[i].ep >= rid[c]
        /\ pc[c] = "done" =>
            /\ Len(resp[c]) = 10
            /\ \A i \in DOMAIN resp[c] : resp[c][i].ep >= rid[c]

C2_Witness ==
    \E c \in DOMAIN pc : pc[c] = "done" /\ cur[c].stale /\ rid[c] >= 2

\* C6 (amended): for every 10-byte response that fails decoding, query_data
\* does not raise and returns (-0.1, -0.1, -1): the sentinel data -1, -1, -1
\* with the first two divided by 10 like any reading.
C6_FailedDecodeGivesScaledSentinel ==
    \A c \in DOMAIN pc :
        (QueryDone(c) /\ ~ChecksumMatches(Values(resp[c])))
            => /\ result[c].kind = "tuple"
               /\ FloatEq(result[c].v[1], [num |-> -1, den |-> 10])
               /\ FloatEq(result[c].v[2], [num |-> -1, den |-> 10])
               /\ result[c].v[3] = -1

C6_Witness ==
    \E c \in DOMAIN pc :
        /\ QueryDone(c) /\ ~ChecksumMatches(Values(resp[c]))
        /\ result[c].kind = "tuple" /\ result[c].v[3] = -1

\* C6 (as claimed): for every 10-byte response that fails decoding, query_data
\* does not raise and returns (-1.0, -1.0, -1).
C6_FailedDecodeGivesSentinel ==
    \A c \in DOMAIN pc :
        (QueryDone(c) /\ ~ChecksumMatches(Values(resp[c])))
            => /\ result[c].kind = "tuple"
               /\ FloatEq(result[c].v[1], [num |-> -1, den |-> 1])
               /\ FloatEq(result[c].v[2], [num |-> -1, den |-> 1])
               /\ result[c].v[3] = -1

\* C7: for every 10-byte response that passes validation, query_data returns
\* pm2_5 and pm10 as the little-endian 16-bit values at offsets 2-3 and 4-5
\* divided by 10 and deviceId as the third decoded field (offsets 6-7), never
\* the failure sentinel.
C7_ValidResponseScaled ==
    \A c \in DOMAIN pc :
        (QueryDone(c) /\ ChecksumMatches(Values(resp[c])))
            => LET b == Values(resp[c]) IN
               /\ result[c].kind = "tuple"
               /\ FloatEq(result[c].v[1], [num |-> b[3] + 256 * b[4], den |-> 10])
               /\ FloatEq(result[c].v[2], [num |-> b[5] + 256 * b[6], den |-> 10])
               /\ result[c].v[3] = b[7] + 256 * b[8]
               /\ result[c].v[3] # -1
               /\ result[c].v[1].num >= 0 /\ result[c].v[2].num >= 0

C7_Witness ==
    \E c \in DOMAIN pc :
        /\ QueryDone(c) /\ ChecksumMatches(Values(resp[c]))
        /\ result[c].kind = "tuple"
        /\ result[c].v[1].num = 1236

\* C13 (as claimed): every mode-setting command returns True once the 10-byte
\* response has been read, whatever the response holds.
C13_ModeSettingReturnsTrue ==
    \A c \in DOMAIN pc :
        (pc[c] = "done" /\ cur[c].name \in CommandNames \ {"query_data"})
            => result[c] = Returned("True", <<>>)

\* The bytes request() returned to c are one whole frame, and the frame the
\* sensor sent in answer to c's own request.
OwnReply(c) ==
    /\ Len(resp[c]) = FrameLen
    /\ \A i \in 1..Len(resp[c]) : resp[c][i].off = i - 1 /\ resp[c][i].rq = rid[c]

\* C19 (as claimed): with the sensor streaming unsolicited frames, the 10
\* bytes request() returns are one whole frame and the reply to the written
\* request, never an unsolicited reading or a splice of two frames.
C19_ActiveModeReturnsReply ==
    \A c \in DOMAIN pc : pc[c] = "done" => OwnReply(c)

----------------------------------------------------------------------------
(* Properties of the serial session in query mode, checked under SpecQuery *)

\* C18: with one request at a time and a sensor that answers each written
\* request with one frame and nothing else, every request() returns, and
\* returns exactly the 10 bytes of the reply to that request.
C18_RequestReturnsOwnReply ==
    /\ [](\A c \in Callers : pc[c] = "done" => OwnReply(c))
    /\ \A c \in Callers : (pc[c] = "write") ~> (pc[c] = "done")

\* The second request of a session has returned its own reply.
C18_Witness ==
    \E c \in DOMAIN pc :
        /\ pc[c] = "done"
        /\ rid[c] = 2
        /\ OwnReply(c)

----------------------------------------------------------------------------
(* Properties of the unserialized session, checked under SpecConc *)

\* Some request has started while another caller's request was running.
Overlapped == \E c \in DOMAIN pc : cur[c].overlap

\* c was returned a byte the sensor sent in answer to another request.
Misattributed(c) ==
    /\ pc[c] = "done"
    /\ \E i \in 1..Len(resp[c]) : resp[c][i].rq # rid[c]

\* C16: requests that overlap on one Sds011 object can be returned each
\* other's replies, and only requests that overlap: a caller is returned bytes
\* of the reply to another request only after two requests have overlapped.
C16_MisattributionNeedsOverlap ==
    \A c \in DOMAIN pc : Misattributed(c) => Overlapped

\* One thread was returned bytes of the reply to the other thread's request.
C16_Witness ==
    \E c \in DOMAIN pc : \E d \in DOMAIN pc \ {c} :
        /\ pc[c] = "done"
        /\ rid[d] # 0
        /\ \E i \in 1..Len(resp[c]) : resp[c][i].rq = rid[d]

====
